---- MODULE Spec2Model ----
(***************************************************************************)
(* Model of uddlib (the resource-to-relation mapping layer of the UDD      *)
(* HTTP API) and of the parts of index.py that call it.                    *)
(*                                                                         *)
(* Column values are small integers; NULL is the store's NULL / Python's   *)
(* None.  Field lists are abbreviated to the primary-key columns plus one  *)
(* or two other columns, kept in the order of the source.                  *)
(***************************************************************************)
EXTENDS Integers, Sequences, FiniteSets, TLC

VARIABLES
    db,          \* the relational store: [cols: table -> column names, rows: table -> rows]
    heap,        \* the Python objects created so far, by address
    instances,   \* UddResource.__instances: <<cls, id>> -> address
    openCursors, \* cursors opened and not yet closed
    queries,     \* <<address, cache attribute>> -> relation queries run to resolve it
    writes,      \* <<address, cache attribute>> -> assignments made to it
    nops,        \* handlers run so far
    ncalls,      \* those of them that were calls from outside (not attribute accesses)
    armed,       \* the call of the next handler that the store will fail; 0: none
    nfaults,     \* the faults of the store so far
    last,        \* what the last handler was called with and what it did
    thr          \* the threads of the concurrent specification

vars == <<db, heap, instances, openCursors, queries, writes, nops, ncalls, armed,
          nfaults, last, thr>>

\* ---------------------------------------------------------------- bounds
MaxOps == 3
MaxCalls == 2
MaxFault == 3
MaxFaults == 1

\* ---------------------------------------------------------------- values
NULL == 0
Values == 1..3
TupleBase == 10

\* ---------------------------------------------------------------- catalog
Classes == {"Bug", "Developper", "Package", "SubPackage", "Popcon",
            "PopconSrc", "PopconSrcAverage", "Source", "Uploader"}

\* cls.__subclasses__(): the direct subclasses only
DirectSubclasses(cls) ==
    CASE cls = "UddResource" -> <<"Bug", "Developper", "Package", "SubPackage",
                                  "Popcon", "Source", "Uploader">>
      [] cls = "Popcon" -> <<"PopconSrc", "PopconSrcAverage">>
      [] OTHER -> <<>>

Path(cls) ==
    CASE cls = "Bug" -> "bugs"
      [] cls = "Developper" -> "developers"
      [] cls = "Package" -> "packages"
      [] cls = "SubPackage" -> "subpackages"
      [] cls = "Popcon" -> "popcon"
      [] cls = "PopconSrc" -> "popcon_src"
      [] cls = "PopconSrcAverage" -> "popcon_src_average"
      [] cls = "Source" -> "sources"
      [] cls = "Uploader" -> "uploaders"

Fields(cls) ==
    CASE cls = "Bug" -> <<"id", "title">>
      [] cls = "Developper" -> <<"id", "login">>
      [] cls = "Package" -> <<"package">>
      [] cls = "SubPackage" -> <<"package", "version", "architecture", "maintainer",
                                 "distribution", "release", "component">>
      [] cls \in {"Popcon", "PopconSrc", "PopconSrcAverage"} -> <<"package", "insts">>
      [] cls = "Source" -> <<"source", "version", "maintainer", "uploaders",
                             "distribution", "release">>
      [] cls = "Uploader" -> <<"source", "version", "distribution", "release",
                               "component", "uploader", "name", "email">>

\* cls._pk; <<>> is None
DeclaredPk(cls) ==
    CASE cls = "Bug" -> <<"id">>
      [] cls = "Developper" -> <<"id">>
      [] cls = "Package" -> <<"package">>
      [] cls = "SubPackage" -> <<"package", "version", "architecture",
                                 "distribution", "release", "component">>
      [] cls = "Source" -> <<"source", "version", "distribution", "release">>
      [] cls = "Uploader" -> Fields("Uploader")
      [] OTHER -> <<>>

\* cls._pk or (cls._fields[0],)
Pk(cls) == IF DeclaredPk(cls) # <<>> THEN DeclaredPk(cls) ELSE <<Fields(cls)[1]>>

\* cls._table: [tuple: whether it is a tuple, names: the table name(s)]; names = <<>> is None
Table(cls) ==
    CASE cls = "Bug" -> [tuple |-> TRUE, names |-> <<"bugs", "archived_bugs">>]
      [] cls = "Developper" -> [tuple |-> TRUE, names |-> <<"carnivore_login">>]
      [] cls = "Package" -> [tuple |-> FALSE, names |-> <<>>]
      [] cls = "SubPackage" -> [tuple |-> FALSE, names |-> <<"packages">>]
      [] cls = "Popcon" -> [tuple |-> FALSE, names |-> <<"popcon">>]
      [] cls = "PopconSrc" -> [tuple |-> FALSE, names |-> <<"popcon_src">>]
      [] cls = "PopconSrcAverage" -> [tuple |-> FALSE, names |-> <<"popcon_src_average">>]
      [] cls = "Source" -> [tuple |-> FALSE, names |-> <<"sources">>]
      [] cls = "Uploader" -> [tuple |-> TRUE, names |-> <<"uploaders">>]

ComputedFields(cls) ==
    CASE cls = "Bug" -> <<"blocks", "blockedby", "merged_with", "fixed_in", "found_in",
                          "tags", "usertags", "packages", "archived">>
      [] cls = "Developper" -> <<"emails", "keys", "names">>
      [] cls = "Package" -> <<"subpackages", "tags">>
      [] cls = "SubPackage" -> <<"descriptions", "lintian">>
      [] cls = "Source" -> <<"uploaders">>
      [] OTHER -> <<>>

\* a class that is not a parametric singleton
NotSingleton(cls) == FALSE

\* UddResource._singleton, overridden by no class
Singleton(cls) == TRUE

\* ---------------------------------------------------------------- helpers
Range(s) == {s[i] : i \in 1..Len(s)}

IndexOf(s, x) == CHOOSE i \in 1..Len(s) : s[i] = x

\* x = <value>; <rest>: the statements after an assignment, run on its value
Bind(x, Rest(_)) == Rest(x)

\* tuple(kwargs[x] for x in names), kwargs = dict(zip(fields, data))
Project(fields, data, names) == [i \in 1..Len(names) |-> data[IndexOf(fields, names[i])]]

\* ---------------------------------------------------------------- the store
TableNames == {"bugs", "archived_bugs", "bugs_blocks", "archived_bugs_blocks",
               "bugs_blockedby", "archived_bugs_blockedby",
               "bugs_merged_with", "archived_bugs_merged_with",
               "bugs_fixed_in", "archived_bugs_fixed_in",
               "bugs_found_in", "archived_bugs_found_in",
               "bugs_tags", "archived_bugs_tags", "bugs_usertags",
               "bugs_packages", "archived_bugs_packages",
               "carnivore_login", "carnivore_emails", "carnivore_keys", "carnivore_names",
               "packages", "packages_summary", "debtags", "ddtp", "lintian",
               "sources", "uploaders", "popcon", "popcon_src", "popcon_src_average"}

\* the columns of each table, in the order SELECT * returns them
Columns(t) ==
    CASE t \in {"bugs", "archived_bugs"} -> Fields("Bug")
      [] t \in {"bugs_blocks", "archived_bugs_blocks"} -> <<"id", "blocked">>
      [] t \in {"bugs_blockedby", "archived_bugs_blockedby"} -> <<"id", "blocker">>
      [] t \in {"bugs_merged_with", "archived_bugs_merged_with"} -> <<"id", "merged_with">>
      [] t \in {"bugs_fixed_in", "archived_bugs_fixed_in",
                "bugs_found_in", "archived_bugs_found_in"} -> <<"id", "version">>
      [] t \in {"bugs_tags", "archived_bugs_tags"} -> <<"id", "tag">>
      [] t = "bugs_usertags" -> <<"email", "tag", "id">>
      [] t \in {"bugs_packages", "archived_bugs_packages"} -> <<"id", "package", "source">>
      [] t = "carnivore_login" -> Fields("Developper")
      [] t = "carnivore_emails" -> <<"id", "email">>
      [] t = "carnivore_keys" -> <<"id", "key", "key_type">>
      [] t = "carnivore_names" -> <<"id", "name">>
      [] t = "packages" -> Fields("SubPackage")
      [] t = "packages_summary" -> <<"package", "version", "distribution", "release",
                                     "component", "source">>
      [] t = "debtags" -> <<"package", "tag">>
      [] t = "ddtp" -> <<"package", "distribution", "release", "component", "version",
                         "language", "description", "long_description", "md5sum">>
      [] t = "lintian" -> <<"package", "package_type", "package_version", "package_arch",
                            "tag", "information">>
      [] t = "sources" -> Fields("Source")
      [] t = "uploaders" -> Fields("Uploader")
      [] t \in {"popcon", "popcon_src", "popcon_src_average"} -> Fields("Popcon")

\* A database.  act/arch: the ids in bugs / archived_bugs; blocks: the rows of
\* bugs_blocks; drift: carnivore_login has grown a column the code does not declare.
Database(act, arch, blocks, drift) ==
    [cols |-> [t \in TableNames |->
                  IF t = "carnivore_login" /\ drift
                  THEN Append(Columns(t), "added") ELSE Columns(t)],
     rows |-> [t \in TableNames |->
        CASE t = "bugs" -> [i \in 1..Len(act) |-> <<act[i], act[i]>>]
          [] t = "archived_bugs" -> [i \in 1..Len(arch) |-> <<arch[i], arch[i]>>]
          [] t = "bugs_blocks" -> blocks
          [] t = "archived_bugs_blocks" -> << <<2, 1>> >>
          [] t = "bugs_blockedby" -> << <<2, 1>> >>
          [] t = "bugs_merged_with" -> << <<1, 1>> >>
          [] t = "bugs_fixed_in" -> << <<1, 1>> >>
          [] t = "archived_bugs_fixed_in" -> << <<2, NULL>> >>
          [] t = "bugs_found_in" -> << <<1, 2>>, <<2, 2>> >>
          [] t = "bugs_tags" -> << <<1, 1>>, <<1, 2>> >>
          [] t = "archived_bugs_tags" -> << <<2, 3>> >>
          [] t = "bugs_usertags" -> << <<1, 2, 1>>, <<3, 3, 2>> >>
          [] t = "bugs_packages" -> << <<1, 1, NULL>> >>
          [] t = "carnivore_login" ->
                IF drift THEN << <<1, 1, 1>>, <<2, 1, 1>> >> ELSE << <<1, 1>>, <<2, 1>> >>
          [] t = "carnivore_emails" -> << <<1, 1>> >>
          [] t = "carnivore_keys" -> << <<1, 1, 2>> >>
          [] t = "carnivore_names" -> << <<1, 1>>, <<1, 2>> >>
          [] t = "packages" -> << <<1, 1, 1, 1, 1, 1, 1>>, <<1, 2, 2, 1, 1, 1, 1>>,
                                  <<2, 1, 1, 2, 1, 1, 1>> >>
          [] t = "packages_summary" -> << <<1, 1, 1, 1, 1, 2>>, <<1, 2, 1, 1, 1, 3>> >>
          [] t = "debtags" -> << <<1, 1>>, <<1, 3>> >>
          [] t = "ddtp" -> << <<1, 1, 1, 1, 1, 1, 1, 2, 3>>, <<1, 1, 1, 1, 1, 2, 2, 2, 1>>,
                              <<1, 1, 1, 1, 2, 1, 3, 3, 3>> >>
          [] t = "lintian" -> << <<1, 1, 1, 1, 1, 1>>, <<1, 1, 2, 2, 2, 2>>,
                                 <<1, 1, 2, 1, 3, 3>> >>
          [] t = "sources" -> << <<1, 1, 1, 1, 1, 1>>, <<1, 2, 2, 2, 1, 1>> >>
          [] t = "uploaders" -> << <<1, 1, 1, 1, 1, 1, 1, 1>>, <<1, 1, 1, 1, 1, 2, 2, 2>> >>
          [] t = "popcon" -> << <<1, 3>> >>
          [] t = "popcon_src" -> << <<2, 1>> >>
          [] OTHER -> <<>>]]

\* bug 1 active and bug 2 archived; both active; bug 1 in both tables (being
\* archived), a dangling row in bugs_blocks and a drifted carnivore_login
Databases ==
    {Database(<<1>>, <<2>>, << <<1, 2>> >>, FALSE),
     Database(<<1, 2>>, <<>>, << <<1, 2>> >>, FALSE),
     Database(<<1>>, <<1, 2>>, << <<1, 2>>, <<1, 3>> >>, TRUE)}

\* psycopg2 adapts a one-element tuple to a parenthesised scalar
SqlValue(x) == IF x > TupleBase THEN x - TupleBase ELSE x

\* a store that ignores the WHERE clause
MatchingAll(t, whereCols, whereVals) == db.rows[t]

\* the rows of table t with column whereCols[i] = whereVals[i] for every i, in row order
Matching(t, whereCols, whereVals) ==
    SelectSeq(db.rows[t],
        LAMBDA r : \A i \in 1..Len(whereCols) :
            /\ whereVals[i] # NULL
            /\ r[IndexOf(db.cols[t], whereCols[i])] = SqlValue(whereVals[i]))

\* whether the store rejects the query
Rejected(t, whereCols, selCols) ==
    \/ t \notin TableNames
    \/ \E i \in 1..Len(whereCols) : whereCols[i] \notin Range(db.cols[t])
    \/ \E i \in 1..Len(selCols) : selCols[i] \notin Range(db.cols[t])

\* ---------------------------------------------------------------- a handler's world
\* heap and inst as the handler has changed them so far; curs: the cursors it has
\* opened; calls: calls it has made to the store; faultAt: the call the store fails;
\* rq: the <<address, field>> whose relation query it has started; wr: the
\* <<address, cache attribute>> it has assigned; sql: the queries it has executed
World(h, i, f) == [heap |-> h, inst |-> i, curs |-> <<>>, calls |-> 0, faultAt |-> f,
                   rq |-> <<>>, wr |-> <<>>, sql |-> <<>>]

Ok(w, shape, val) == [w |-> w, kind |-> "ok", shape |-> shape, val |-> val]
Raise(w, kind) == [w |-> w, kind |-> kind, shape |-> "none", val |-> <<>>]

\* connection.cursor(); the new cursor is the last of w.curs
Cursor(w) == [w EXCEPT !.curs = Append(@, [execs |-> 0, closed |-> FALSE])]

\* cur.close()
CloseCursor(w, c) == [w EXCEPT !.curs[c].closed = TRUE]

\* cur.execute(query, params) on cursor c: SELECT selCols FROM t WHERE whereCols = whereVals;
\* selCols = <<>> is SELECT *
Execute(w, c, t, whereCols, whereVals, selCols, badParam) ==
    LET w1 == [w EXCEPT !.calls = @ + 1, !.curs[c].execs = @ + 1,
                        !.sql = Append(@, [t |-> t, cols |-> whereCols, vals |-> whereVals])]
        failed == w1.calls = w.faultAt \/ badParam \/ Rejected(t, whereCols, selCols)
        found == IF failed THEN <<>> ELSE Matching(t, whereCols, whereVals)
    IN [w |-> w1, err |-> failed,
        rows |-> IF selCols = <<>> THEN found
                 ELSE [i \in 1..Len(found) |-> Project(db.cols[t], found[i], selCols)]]

\* cur.fetchone() / cur.fetchall(): one more call, which the store may fail
StoreCall(w) == [w |-> [w EXCEPT !.calls = @ + 1], err |-> w.calls + 1 = w.faultAt]

\* ---------------------------------------------------------------- objects
\* the cache attributes a class declares (_blocks = None, ...)
CacheAttrs(cls) ==
    CASE cls = "Bug" -> {"_blocks", "_blockedby", "_merged_with", "_fixed_in",
                         "_found_in", "_tags", "_usertags", "_packages"}
      [] cls = "Developper" -> {"_emails", "_keys", "_names"}
      [] cls = "Package" -> {"_tags"}
      [] cls = "SubPackage" -> {"_descriptions", "_lintian"}
      [] cls = "Source" -> {"_uploaders"}
      [] OTHER -> {}

\* a Python value: None, or a list of scalars, of tuples or of objects (addresses), ...
None == [set |-> FALSE, shape |-> "none", val |-> <<>>]
Value(shape, val) == [set |-> TRUE, shape |-> shape, val |-> val]

\* object.__new__(cls) with instance._parameter = id: the class attributes show through
NewObject(cls, id) ==
    [cls |-> cls, _parameter |-> id, _data |-> <<>>, _table |-> Table(cls).names,
     cache |-> [a \in CacheAttrs(cls) |-> None]]

\* UddResource.__new__(cls, **kwargs): the parametric singleton
New(w, cls, id) ==
    IF Singleton(cls) /\ <<cls, id>> \in DOMAIN w.inst
    THEN [w |-> w, addr |-> w.inst[<<cls, id>>]]
    ELSE LET a == Len(w.heap) + 1
             h == Append(w.heap, NewObject(cls, id))
         IN [w |-> [w EXCEPT !.heap = h,
                             !.inst = IF Singleton(cls)
                                      THEN [k \in DOMAIN w.inst \cup {<<cls, id>>} |->
                                               IF k = <<cls, id>> THEN a ELSE w.inst[k]]
                                      ELSE w.inst],
             addr |-> a]

\* an __init__ that also sets _parameter, to the first value of the row
RekeyingInit(w, a, table, dt) ==
    [w EXCEPT !.heap[a]._data = dt,
              !.heap[a]._parameter = <<dt[1]>>,
              !.heap[a]._table = IF table # <<>> THEN table ELSE @]

\* UddResource.__init__(self, _table, **kwargs), run on whatever __new__ returned;
\* table = <<>> is None
InitObject(w, a, table, data) ==
    [w EXCEPT !.heap[a]._data = data,
              !.heap[a]._table = IF table # <<>> THEN table ELSE @]

\* data2object(cls, data, table)
data2object(w, cls, data, table) ==
    IF Len(Fields(cls)) # Len(data)
    THEN Raise(w, "AssertionError")
    ELSE Bind(New(w, cls, Project(Fields(cls), data, Pk(cls))), LAMBDA n :
              Ok(InitObject(n.w, n.addr, table, data), "obj", <<n.addr>>))

\* Package(package=x): UddResource.__new__, then Package.__init__
NewPackage(w, x) ==
    Bind(New(w, "Package", <<x>>), LAMBDA n :
         [w |-> [n.w EXCEPT !.heap[n.addr]._data = <<x>>], addr |-> n.addr])

\* ---------------------------------------------------------------- fetch_database
\* the loop over cur.fetchone() of the branch without primary key, from row i on
RECURSIVE FetchRows(_, _, _, _, _, _)
FetchRows(w, cls, table, rows, i, objects) ==
    Bind(StoreCall(w), LAMBDA f :
        IF f.err THEN Raise(f.w, "StoreError")
        ELSE IF i > Len(rows) THEN Ok(f.w, "objs", objects)
        ELSE Bind(data2object(f.w, cls, rows[i], <<table>>), LAMBDA o :
                 IF o.kind # "ok" THEN o
                 ELSE FetchRows(o.w, cls, table, rows, i + 1, objects \o o.val)))

\* a cursor closed on return only: try without finally
CloseOnReturn(r, c) == IF r.kind = "ok" THEN [r EXCEPT !.w = CloseCursor(r.w, c)] ELSE r

\* a result with the cursor c closed: the finally clause
Finally(r, c) == [r EXCEPT !.w = CloseCursor(r.w, c)]

\* fetch_database on one table (a string): pk = <<>> is None, <<v>> a scalar, a longer
\* sequence a tuple, which the store cannot compare with a column;
\* kwargs is a sequence of <<key, value>>
FetchTable(w, cls, pk, table, kwargs) ==
    Bind(Len(w.curs) + 1, LAMBDA c :
        IF pk = <<>>
        THEN Bind(Execute(Cursor(w), c, table,
                          [i \in 1..Len(kwargs) |-> kwargs[i][1]],
                          [i \in 1..Len(kwargs) |-> kwargs[i][2]], <<>>, FALSE),
                  LAMBDA ex :
                 IF ex.err THEN Finally(Raise(ex.w, "StoreError"), c)
                 ELSE Finally(FetchRows(ex.w, cls, table, ex.rows, 1, <<>>), c))
        ELSE Bind(Execute(Cursor(w), c, table, <<Fields(cls)[1]>>, <<pk[1]>>, <<>>,
                          Len(pk) > 1),
                  LAMBDA ex :
                 IF ex.err THEN Finally(Raise(ex.w, "StoreError"), c)
                 ELSE Bind(StoreCall(ex.w), LAMBDA f :
                     IF f.err THEN Finally(Raise(f.w, "StoreError"), c)
                     ELSE IF ex.rows = <<>> THEN Finally(Raise(f.w, "ObjectNotFound"), c)
                     ELSE Finally(data2object(f.w, cls, ex.rows[1], <<table>>), c))))

\* the loop over the tables of a multi-table class, without primary key, from table i on
RECURSIVE FetchTablesList(_, _, _, _, _, _)
FetchTablesList(w, cls, tables, kwargs, i, results) ==
    IF i > Len(tables) THEN Ok(w, "objs", results)
    ELSE Bind(FetchTable(w, cls, <<>>, tables[i], kwargs), LAMBDA r :
            IF r.kind = "ok"
            THEN FetchTablesList(r.w, cls, tables, kwargs, i + 1, results \o r.val)
            ELSE IF r.kind = "ObjectNotFound"
            THEN FetchTablesList(r.w, cls, tables, kwargs, i + 1, results)
            ELSE r)

\* return results, which only the branch without primary key has assigned
AfterTablesPk(w) == Raise(w, "UnboundLocalError")

\* the loop over the tables of a multi-table class, with a primary key, from table i on
RECURSIVE FetchTablesPk(_, _, _, _, _, _)
FetchTablesPk(w, cls, pk, tables, kwargs, i) ==
    IF i > Len(tables) THEN AfterTablesPk(w)
    ELSE Bind(FetchTable(w, cls, pk, tables[i], kwargs), LAMBDA r :
            IF r.kind = "ObjectNotFound"
            THEN FetchTablesPk(r.w, cls, pk, tables, kwargs, i + 1)
            ELSE r)

\* UddResource.fetch_database(pk, **kwargs) as the callers use it (fields and _table
\* left to their defaults)
BaseFetchDatabase(w, cls, pk, kwargs) ==
    IF Table(cls).tuple
    THEN IF pk = <<>>
         THEN FetchTablesList(w, cls, Table(cls).names, kwargs, 1, <<>>)
         ELSE FetchTablesPk(w, cls, pk, Table(cls).names, kwargs, 1)
    ELSE FetchTable(w, cls, pk, Table(cls).names[1], kwargs)

\* [Package(package=x) for x in cur.fetchall()]: x is a row, a one-element tuple
RECURSIVE NewPackages(_, _, _, _)
NewPackages(w, rows, i, objects) ==
    IF i > Len(rows) THEN Ok(w, "objs", objects)
    ELSE Bind(NewPackage(w, TupleBase + rows[i][1]), LAMBDA n :
              NewPackages(n.w, rows, i + 1, Append(objects, n.addr)))

\* SELECT DISTINCT(package): the first row of each package
Distinct(rows) ==
    SelectSeq([i \in 1..Len(rows) |->
                  IF \E j \in 1..(i - 1) : rows[j] = rows[i] THEN <<NULL>> ELSE rows[i]],
              LAMBDA r : r # <<NULL>>)

\* Package.fetch_database(pk, package): v = <<>> is neither given.  The parameters are
\* always (pk,); the driver leaves a query without placeholder as it is
PackageFetchDatabase(w, v) ==
    Bind(Len(w.curs) + 1, LAMBDA c :
    Bind(Execute(Cursor(w), c, "packages",
                 IF v = <<>> THEN <<>> ELSE <<"package">>, v, <<"package">>, Len(v) > 1),
         LAMBDA ex :
        IF ex.err THEN Finally(Raise(ex.w, "StoreError"), c)
        ELSE Bind(StoreCall(ex.w), LAMBDA f :
            IF f.err THEN Finally(Raise(f.w, "StoreError"), c)
            ELSE IF v = <<>> THEN Finally(NewPackages(f.w, Distinct(ex.rows), 1, <<>>), c)
            ELSE IF ex.rows = <<>> THEN Finally(Raise(f.w, "ObjectNotFound"), c)
            ELSE Bind(NewPackage(f.w, v[1]), LAMBDA n :
                      Finally(Ok(n.w, "obj", <<n.addr>>), c)))))

\* cls.fetch_database(pk=pk, **kwargs), the method the class resolves it to
FetchDatabase(w, cls, pk, kwargs) ==
    IF cls = "Package"
    THEN IF \E i \in 1..Len(kwargs) : kwargs[i][1] # "package"
         THEN Raise(w, "TypeError")
         ELSE PackageFetchDatabase(w, IF pk # <<>> THEN pk
                                      ELSE [i \in 1..Len(kwargs) |-> kwargs[i][2]])
    ELSE BaseFetchDatabase(w, cls, pk, kwargs)

\* ---------------------------------------------------------------- _fetch_linked
\* [cls.fetch_database(pk=x) for x in data], from element i on
RECURSIVE FetchEach(_, _, _, _, _)
FetchEach(w, cls, data, i, objects) ==
    IF i > Len(data) THEN Ok(w, "objs", objects)
    ELSE Bind(FetchDatabase(w, cls, <<data[i]>>, <<>>), LAMBDA r :
            IF r.kind # "ok" THEN r
            ELSE FetchEach(r.w, cls, data, i + 1, objects \o r.val))

\* what the loop over the candidate classes does once a candidate has resolved the row
AfterResolved(i, n) == i + 1

\* for cls in classes: try: obj = cls.fetch_database(...) except ObjectNotFound: pass
\* from candidate i on; obj = <<>> is None
RECURSIVE Resolve(_, _, _, _, _, _)
Resolve(w, classes, multiple, data, i, obj) ==
    IF i > Len(classes) THEN Ok(w, "obj", obj)
    ELSE Bind(IF multiple THEN FetchEach(w, classes[i], data, 1, <<>>)
              ELSE FetchDatabase(w, classes[i], <<data[1]>>, <<>>), LAMBDA r :
            IF r.kind = "ok"
            THEN Resolve(r.w, classes, multiple, data, AfterResolved(i, Len(classes)),
                         IF multiple THEN <<r.val>> ELSE r.val)
            ELSE IF r.kind = "ObjectNotFound"
            THEN Resolve(r.w, classes, multiple, data, i + 1, obj)
            ELSE r)

\* the loop over cur.fetchone() of _fetch_linked, from row i on; classes = <<>> is None
RECURSIVE LinkedRows(_, _, _, _, _, _)
LinkedRows(w, classes, multiple, rows, i, objects) ==
    Bind(StoreCall(w), LAMBDA f :
        IF f.err THEN Raise(f.w, "StoreError")
        ELSE IF i > Len(rows)
        THEN Ok(f.w, IF classes # <<>> THEN "objs"
                     ELSE IF multiple THEN "tuples" ELSE "scalars", objects)
        ELSE IF classes = <<>>
        THEN IF multiple
             THEN LinkedRows(f.w, classes, multiple, rows, i + 1, Append(objects, rows[i]))
             ELSE IF rows[i][1] = NULL THEN Raise(f.w, "CorruptedDatabase")
             ELSE LinkedRows(f.w, classes, multiple, rows, i + 1,
                             Append(objects, rows[i][1]))
        ELSE Bind(Resolve(f.w, classes, multiple, rows[i], 1, <<>>), LAMBDA r :
                 IF r.kind # "ok" THEN r
                 ELSE IF r.val = <<>> THEN Raise(r.w, "CorruptedDatabase")
                 ELSE LinkedRows(r.w, classes, multiple, rows, i + 1, objects \o r.val)))

\* _fetch_linked with base_table_name a string
LinkedTable(w, a, relation_name, field, multiple, classes, base_table_name, exclude_from_pk) ==
    LET self == w.heap[a]
        pk == DeclaredPk(self.cls)
        kept == SelectSeq([i \in 1..Len(pk) |-> i], LAMBDA i : pk[i] \notin exclude_from_pk)
        c == Len(w.curs) + 1
    IN Bind(Execute(Cursor(w), c, base_table_name \o relation_name,
                    [i \in 1..Len(kept) |-> pk[kept[i]]],
                    [i \in 1..Len(kept) |-> self._parameter[kept[i]]],
                    field, FALSE),
            LAMBDA ex :
           IF ex.err THEN Finally(Raise(ex.w, "StoreError"), c)
           ELSE Finally(LinkedRows(ex.w, classes, multiple, ex.rows, 1, <<>>), c))

\* the loop over the base tables, from table i on: exclude_from_pk is not passed on
RECURSIVE LinkedTables(_, _, _, _, _, _, _, _, _)
LinkedTables(w, a, relation_name, field, multiple, classes, bases, i, results) ==
    IF i > Len(bases)
    THEN Ok(w, IF classes # <<>> THEN "objs"
               ELSE IF multiple THEN "tuples" ELSE "scalars", results)
    ELSE Bind(LinkedTable(w, a, relation_name, field, multiple, classes,
                          bases[i] \o "_", {}), LAMBDA r :
            IF r.kind # "ok" THEN r
            ELSE LinkedTables(r.w, a, relation_name, field, multiple, classes, bases,
                              i + 1, results \o r.val))

\* self._fetch_linked(relation_name, field, classes, base_table_name, exclude_from_pk):
\* field is the sequence of selected columns, multiple whether it was given as a tuple;
\* classes = <<>> and base_table_name = "" are None
_fetch_linked(w, a, relation_name, field, multiple, classes, base_table_name, exclude_from_pk) ==
    IF base_table_name = ""
    THEN LinkedTables(w, a, relation_name, field, multiple, classes,
                      w.heap[a]._table, 1, <<>>)
    ELSE LinkedTable(w, a, relation_name, field, multiple, classes, base_table_name,
                     exclude_from_pk)

\* ---------------------------------------------------------------- computed fields
\* the call of _fetch_linked a property makes, and the attribute that caches its result
Relation(cls, name) ==
    LET R(attr, rel, field, multiple, classes, base, exclude) ==
            [attr |-> attr, rel |-> rel, field |-> field, multiple |-> multiple,
             classes |-> classes, base |-> base, exclude |-> exclude]
    IN CASE cls = "Bug" /\ name = "blocks" ->
                R("_blocks", "blocks", <<"blocked">>, FALSE, <<"Bug">>, "", {})
         [] cls = "Bug" /\ name = "blockedby" ->
                R("_blockedby", "blockedby", <<"blocker">>, FALSE, <<"Bug">>, "", {})
         [] cls = "Bug" /\ name = "merged_with" ->
                R("_merged_with", "merged_with", <<"merged_with">>, FALSE, <<"Bug">>, "", {})
         [] cls = "Bug" /\ name = "fixed_in" ->
                R("_fixed_in", "fixed_in", <<"version">>, FALSE, <<>>, "", {})
         [] cls = "Bug" /\ name = "found_in" ->
                R("_found_in", "found_in", <<"version">>, FALSE, <<>>, "", {})
         [] cls = "Bug" /\ name = "tags" ->
                R("_tags", "tags", <<"tag">>, FALSE, <<>>, "", {})
         [] cls = "Bug" /\ name = "usertags" ->
                R("_usertags", "usertags", <<"email", "tag">>, TRUE, <<>>, "", {})
         [] cls = "Bug" /\ name = "packages" ->
                R("_packages", "packages", <<"package", "source">>, TRUE, <<>>, "", {})
         [] cls = "Developper" /\ name = "emails" ->
                R("_emails", "emails", <<"email">>, FALSE, <<>>, "carnivore_", {})
         [] cls = "Developper" /\ name = "keys" ->
                R("_keys", "keys", <<"key", "key_type">>, TRUE, <<>>, "carnivore_", {})
         [] cls = "Developper" /\ name = "names" ->
                R("_names", "names", <<"name">>, FALSE, <<>>, "carnivore_", {})
         [] cls = "Package" /\ name = "tags" ->
                R("_tags", "", <<"tag">>, FALSE, <<>>, "debtags", {})
         [] cls = "SubPackage" /\ name = "descriptions" ->
                R("_descriptions", "",
                  <<"language", "description", "long_description", "md5sum">>, TRUE,
                  <<>>, "ddtp", {"architecture"})
         [] cls = "SubPackage" /\ name = "lintian" ->
                R("_lintian", "",
                  <<"package_type", "tag", "information", "package_arch",
                    "package_version">>, TRUE, <<>>, "lintian",
                  {"distribution", "release", "component", "architecture", "version"})
         [] cls = "Source" /\ name = "uploaders" ->
                R("_uploaders", "", <<"uploader", "name", "email">>, TRUE, <<>>,
                  "uploaders", {})

\* self.<field>: __getattr__ on a declared field
Attr(obj, field) == obj._data[IndexOf(Fields(obj.cls), field)]

\* what a property makes of the rows _fetch_linked returned before caching them
Converted(self, name, r) ==
    CASE self.cls = "SubPackage" /\ name = "descriptions" ->
            Value("dict", [k \in {r.val[i][1] : i \in 1..Len(r.val)} |->
                LET n == CHOOSE i \in 1..Len(r.val) :
                            /\ r.val[i][1] = k
                            /\ \A j \in (i + 1)..Len(r.val) : r.val[j][1] # k
                IN SubSeq(r.val[n], 2, 4)])
      [] self.cls = "SubPackage" /\ name = "lintian" ->
            Value("tuples",
                LET kept == SelectSeq(r.val, LAMBDA x :
                        SubSeq(x, 4, 5) = <<Attr(self, "architecture"), Attr(self, "version")>>)
                IN [i \in 1..Len(kept) |-> SubSeq(kept[i], 1, 3)])
      [] OTHER -> Value(r.shape, r.val)

\* the attribute a property returns once the cache is filled
Returned(cls, name) ==
    IF cls = "Bug" /\ name = "usertags" THEN "_tags" ELSE Relation(cls, name).attr

\* a property that never looks at its cache attribute
AlwaysUnresolved(w, a, attr) == TRUE

\* whether a property with a cache attribute goes to the store
Unresolved(w, a, attr) == ~w.heap[a].cache[attr].set

\* self._attr = value
SetCache(w, a, attr, value) ==
    [w EXCEPT !.heap[a].cache[attr] = value, !.wr = Append(@, <<a, attr>>)]

\* the value of a property, as a result
Return(w, a, attr) ==
    LET v == w.heap[a].cache[attr]
    IN [w |-> w, kind |-> "ok", shape |-> v.shape, val |-> v.val]

\* Bug.archived
archived(w, a) == "bugs" \notin Range(w.heap[a]._table)

\* the right-hand side of the assignment in a property with a cache attribute
Compute(w, a, name) ==
    LET cls == w.heap[a].cls
        rel == Relation(cls, name)
    IN IF cls = "Bug" /\ name = "usertags" /\ archived(w, a)
       THEN Ok(w, "tuples", <<>>)
       ELSE Bind(_fetch_linked([w EXCEPT !.rq = Append(@, <<a, name>>)], a,
                               rel.rel, rel.field, rel.multiple, rel.classes,
                               rel.base, rel.exclude), LAMBDA r :
               IF r.kind # "ok" THEN r
               ELSE Bind(Converted(r.w.heap[a], name, r), LAMBDA v :
                         Ok(r.w, v.shape, v.val)))

\* a property that also resolves the same field of the first resource it links to
EagerProperty(w, a, name) ==
    Bind(Compute(w, a, name), LAMBDA r :
        IF r.kind # "ok" THEN r
        ELSE IF r.shape = "objs" /\ Len(r.val) > 0
        THEN Bind(Compute(r.w, r.val[1], name), LAMBDA e :
                 IF e.kind # "ok" THEN e
                 ELSE Return(SetCache(e.w, a, Relation(w.heap[a].cls, name).attr,
                                      Value(r.shape, r.val)), a,
                             Returned(w.heap[a].cls, name)))
        ELSE Return(SetCache(r.w, a, Relation(w.heap[a].cls, name).attr,
                             Value(r.shape, r.val)), a, Returned(w.heap[a].cls, name)))

\* a property of the form: if self._x is None: self._x = <right-hand side>;
\* return self._x
CachedProperty(w, a, name) ==
    LET cls == w.heap[a].cls
        attr == Relation(cls, name).attr
    IN IF Unresolved(w, a, attr)
       THEN Bind(Compute(w, a, name), LAMBDA r :
               IF r.kind # "ok" THEN r
               ELSE Return(SetCache(r.w, a, attr, Value(r.shape, r.val)), a,
                           Returned(cls, name)))
       ELSE Return(w, a, Returned(cls, name))

\* Package.get_subpackages(): SubPackage.fetch_database(package=self.name)
get_subpackages(w, a) ==
    FetchDatabase([w EXCEPT !.rq = Append(@, <<a, "subpackages">>)], "SubPackage", <<>>,
                  << <<"package", w.heap[a]._data[1]>> >>)

\* getattr(self, name) for a computed field
Property(w, a, name) ==
    LET cls == w.heap[a].cls
    IN CASE cls = "Bug" /\ name = "archived" -> Ok(w, "bool", <<archived(w, a)>>)
         [] cls = "Package" /\ name = "subpackages" -> get_subpackages(w, a)
         [] OTHER -> CachedProperty(w, a, name)

\* ---------------------------------------------------------------- index.py
\* get_subclasses(cls): the direct subclasses, then those of each of them
RECURSIVE get_subclasses(_)
get_subclasses(cls) ==
    LET direct == DirectSubclasses(cls)
        F[i \in 0..Len(direct)] ==
            IF i = 0 THEN direct ELSE F[i - 1] \o get_subclasses(direct[i])
    IN F[Len(direct)]

\* UddResource.resolve_path(path): the class, or <<>> for ResourceNotFound
resolve_path(path) ==
    LET direct == DirectSubclasses("UddResource")
        hits == SelectSeq(direct, LAMBDA c : Path(c) = path)
    IN IF hits = <<>> THEN <<>> ELSE <<hits[1]>>

\* dthandler(obj) on a resource: dict(zip(obj.pk, obj._parameter))
dthandler(obj) == [ref |-> obj.cls, pk |-> obj._parameter]

\* what json.dumps makes of the value of a computed field
Dumped(w, r) ==
    IF r.shape = "objs" THEN [i \in 1..Len(r.val) |-> dthandler(w.heap[r.val[i]])]
    ELSE IF r.shape = "none" THEN <<"null">>
    ELSE r.val

\* [(x, getattr(self, x)) for x in self._computed_fields], from field i on
RECURSIVE ComputedItems(_, _, _, _)
ComputedItems(w, a, i, items) ==
    LET names == ComputedFields(w.heap[a].cls)
    IN IF i > Len(names) THEN Ok(w, "items", items)
       ELSE Bind(Property(w, a, names[i]), LAMBDA r :
               IF r.kind # "ok" THEN r
               ELSE ComputedItems(r.w, a, i + 1, Append(items, Dumped(r.w, r))))

\* serialize(x.data): dict(self._data.items() + computed items), keys as declared
data(w, a) ==
    Bind(ComputedItems(w, a, 1, <<>>), LAMBDA r :
        LET self == r.w.heap[a]
            fields == Fields(self.cls)
            names == ComputedFields(self.cls)
        IN IF r.kind # "ok" THEN r
           ELSE Ok(r.w, "data",
                   << [k \in Range(fields) \cup Range(names) |->
                         IF k \in Range(names) THEN r.val[IndexOf(names, k)]
                         ELSE <<self._data[IndexOf(fields, k)]>>] >>))

\* [x.data for x in obj], from object i on
RECURSIVE DataOfEach(_, _, _, _)
DataOfEach(w, objs, i, out) ==
    IF i > Len(objs) THEN Ok(w, "datas", out)
    ELSE Bind(data(w, objs[i]), LAMBDA r :
            IF r.kind # "ok" THEN r
            ELSE DataOfEach(r.w, objs, i + 1, out \o r.val))

\* application(environ, start_response): url is PATH_INFO split on "/", filters the
\* parsed QUERY_STRING as a sequence of <<key, value>>.  status "none": the handler
\* returned without calling start_response; "500": an exception left the handler
application(w, url, filters) ==
    LET Response(status, r) == [r EXCEPT !.shape = status]
        found == resolve_path(url[1])
        cls == found[1]
    IN IF Len(url) = 0
       THEN Response("200", Ok(w, "", get_subclasses("UddResource")))
       ELSE IF found = <<>> THEN Response("404", Ok(w, "", <<>>))
       ELSE IF Len(url) = 1
       THEN IF \E i \in 1..Len(filters) : filters[i][1] \notin Range(Fields(cls))
            THEN Raise(w, "AssertionError")
            ELSE Bind(FetchDatabase(w, cls, <<>>, filters), LAMBDA obj :
                 Bind(IF obj.kind # "ok" THEN obj
                      ELSE IF obj.shape = "objs" THEN DataOfEach(obj.w, obj.val, 1, <<>>)
                      ELSE data(obj.w, obj.val[1]), LAMBDA out :
                      IF out.kind # "ok" THEN out ELSE Response("200", out)))
       ELSE IF Len(url) = 2 /\ url[2] = "doc"
       THEN Response("200", Ok(w, "", <<ComputedFields(cls), Fields(cls)>>))
       ELSE Response("none", Ok(w, "", <<>>))

\* ---------------------------------------------------------------- the state machine
NoThreads == <<>>

\* no call of _fetch_linked
NoCall == [rel |-> "", field |-> <<>>, multiple |-> FALSE, classes |-> <<>>, base |-> "",
           exclude |-> {}]

\* the record of the last handler
Last(op, cls, pk, kwargs, a, name, url, wasSet, w, r) ==
    [op |-> op, cls |-> cls, pk |-> pk, kwargs |-> kwargs, a |-> a, name |-> name,
     url |-> url, wasSet |-> wasSet,
     faulted |-> (w.faultAt > 0 /\ r.w.calls >= w.faultAt),
     fresh |-> Len(r.w.heap) - Len(w.heap),
     rq |-> r.w.rq, sql |-> r.w.sql, call |-> NoCall,
     kind |-> r.kind, shape |-> r.shape, val |-> r.val, curs |-> r.w.curs]

Init ==
    /\ db \in Databases
    /\ heap = <<>>
    /\ instances = [k \in {} |-> 0]
    /\ openCursors = 0
    /\ queries = [k \in {} |-> 0]
    /\ writes = [k \in {} |-> 0]
    /\ nops = 0
    /\ ncalls = 0
    /\ armed = 0
    /\ nfaults = 0
    /\ last = Last("init", "", <<>>, <<>>, 0, "", <<>>, FALSE, World(<<>>, <<>>, 0),
                   Ok(World(<<>>, <<>>, 0), "", <<>>))
    /\ thr = NoThreads

\* f with every occurrence of a key in log counted
Tally(f, log) ==
    [k \in DOMAIN f \cup Range(log) |->
        (IF k \in DOMAIN f THEN f[k] ELSE 0) + Cardinality({i \in 1..Len(log) : log[i] = k})]

\* what a handler that ended with result r leaves behind
Commit(r) ==
    /\ heap' = r.w.heap
    /\ instances' = r.w.inst
    /\ openCursors' = openCursors
                      + Cardinality({c \in 1..Len(r.w.curs) : ~r.w.curs[c].closed})
    /\ queries' = Tally(queries, r.w.rq)
    /\ writes' = Tally(writes, r.w.wr)
    /\ nops' = nops + 1
    /\ armed' = 0
    /\ UNCHANGED <<db, nfaults>>

\* the primary keys a caller asks for
PkInputs(cls) ==
    {<<v>> : v \in Values}
    \cup (IF cls = "SubPackage" THEN {<<1, 2, 2, 1, 1, 1>>} ELSE {})
    \cup (IF cls = "Source" THEN {<<1, 2, 1, 1>>} ELSE {})

\* the filters a caller gives: none, one on a declared field, one on an unknown key,
\* and for subpackages one on two fields
FilterInputs(cls) ==
    {<<>>, << <<"nosuch", 1>> >>}
    \cup {<< <<Fields(cls)[i], 1>> >> : i \in 1..(IF Len(Fields(cls)) > 1 THEN 2 ELSE 1)}
    \cup (IF cls = "SubPackage" THEN {<< <<"package", 1>>, <<"version", 2>> >>} ELSE {})

\* the store will fail call k of the next handler
StoreFault(k) ==
    /\ armed = 0
    /\ nfaults < MaxFaults
    /\ nops < MaxOps
    /\ armed' = k
    /\ nfaults' = nfaults + 1
    /\ UNCHANGED <<db, heap, instances, openCursors, queries, writes, nops, ncalls,
                   last, thr>>

\* a handler called on world w has ended with result r
Handled(op, cls, pk, kwargs, a, name, url, wasSet, w, r) ==
    /\ Commit(r)
    /\ last' = Last(op, cls, pk, kwargs, a, name, url, wasSet, w, r)
    /\ UNCHANGED thr

\* a call from outside: of the core or of the WSGI application
Called == ncalls < MaxCalls /\ nops < MaxOps /\ ncalls' = ncalls + 1

\* cls.fetch_database(pk=pk)
FetchPk(cls, pk) ==
    /\ Called
    /\ Handled("FetchPk", cls, pk, <<>>, 0, "", <<>>, FALSE,
               World(heap, instances, armed),
               FetchDatabase(World(heap, instances, armed), cls, pk, <<>>))

\* cls.fetch_database(**kwargs)
FetchFilter(cls, kwargs) ==
    /\ Called
    /\ Handled("FetchFilter", cls, <<>>, kwargs, 0, "", <<>>, FALSE,
               World(heap, instances, armed),
               FetchDatabase(World(heap, instances, armed), cls, <<>>, kwargs))

\* whether the cache attribute behind computed field name of object a is filled
IsCached(h, a, name) ==
    /\ ~(h[a].cls = "Bug" /\ name = "archived")
    /\ ~(h[a].cls = "Package" /\ name = "subpackages")
    /\ h[a].cache[Relation(h[a].cls, name).attr].set

\* getattr(obj, name) on the live object at address a, name one of its computed fields
Access(a, name) ==
    /\ nops < MaxOps
    /\ UNCHANGED ncalls
    /\ Handled("Access", heap[a].cls, <<>>, <<>>, a, name, <<>>, IsCached(heap, a, name),
               World(heap, instances, armed),
               Property(World(heap, instances, armed), a, name))

\* UddResource.resolve_path(path)
ResolvePath(path) ==
    /\ Called
    /\ Handled("ResolvePath", "", <<>>, <<>>, 0, "", <<path>>, FALSE,
               World(heap, instances, armed),
               IF resolve_path(path) = <<>>
               THEN Raise(World(heap, instances, armed), "ResourceNotFound")
               ELSE Ok(World(heap, instances, armed), "cls", resolve_path(path)))

\* the requests: PATH_INFO and QUERY_STRING
Requests ==
    {<< <<>>, <<>> >>, << <<"nosuch">>, <<>> >>, << <<"popcon_src">>, <<>> >>,
     << <<"sources", "doc">>, <<>> >>, << <<"bugs", "1">>, <<>> >>,
     << <<"bugs">>, <<>> >>, << <<"bugs">>, << <<"id", 1>> >> >>,
     << <<"bugs">>, << <<"nosuch", 1>> >> >>,
     << <<"developers">>, << <<"login", 1>> >> >>,
     << <<"packages">>, <<>> >>, << <<"packages">>, << <<"package", 1>> >> >>,
     << <<"subpackages">>, << <<"package", 1>>, <<"version", 2>> >> >>,
     << <<"sources">>, << <<"source", 1>> >> >>}

Paths == {Path(c) : c \in Classes} \cup {"nosuch"}

\* one request served by application
Application(url, filters) ==
    /\ Called
    /\ Handled("Application", "", <<>>, filters, 0, "", url, FALSE,
               World(heap, instances, armed),
               application(World(heap, instances, armed), url, filters))

Next ==
    \/ \E k \in 1..MaxFault : StoreFault(k)
    \/ \E cls \in Classes : \E pk \in PkInputs(cls) : FetchPk(cls, pk)
    \/ \E cls \in Classes : \E kw \in FilterInputs(cls) : FetchFilter(cls, kw)
    \/ \E a \in 1..Len(heap) : \E i \in 1..Len(ComputedFields(heap[a].cls)) :
           Access(a, ComputedFields(heap[a].cls)[i])
    \/ \E path \in Paths : ResolvePath(path)
    \/ \E rq \in Requests : Application(rq[1], rq[2])

Spec == Init /\ [][Next]_vars

\* ---------------------------------------------------------------- two threads
\* Two request threads that share the identity-mapped instances.  Each reads one
\* property of the form "if self._x is None: self._x = ...; return self._x"; the
\* interpreter may switch threads between the test, the query and the assignment.
Threads == {1, 2}

Idle == [pc |-> "idle", a |-> 0, name |-> "", res |-> None]

InitThreads ==
    /\ db \in Databases
    /\ heap = <<>>
    /\ instances = [k \in {} |-> 0]
    /\ openCursors = 0
    /\ queries = [k \in {} |-> 0]
    /\ writes = [k \in {} |-> 0]
    /\ nops = 0
    /\ ncalls = 0
    /\ armed = 0
    /\ nfaults = 0
    /\ last = Last("init", "", <<>>, <<>>, 0, "", <<>>, FALSE, World(<<>>, <<>>, 0),
                   Ok(World(<<>>, <<>>, 0), "", <<>>))
    /\ thr = [t \in Threads |-> Idle]

\* the computed fields that are properties of that form
CachedFields(cls) ==
    {ComputedFields(cls)[i] : i \in 1..Len(ComputedFields(cls))}
    \ (IF cls = "Bug" THEN {"archived"} ELSE IF cls = "Package" THEN {"subpackages"} ELSE {})

\* thread t starts getattr(obj, name) on the object at address a
Start(t, a, name) ==
    /\ thr[t].pc = "idle"
    /\ thr' = [thr EXCEPT ![t] = [pc |-> "test", a |-> a, name |-> name, res |-> None]]
    /\ UNCHANGED <<db, heap, instances, openCursors, queries, writes, nops, ncalls,
                   armed, nfaults, last>>

\* if self._x is None
Test(t) ==
    /\ thr[t].pc = "test"
    /\ thr' = [thr EXCEPT ![t].pc =
                  IF Unresolved(World(heap, instances, 0), thr[t].a,
                                Relation(heap[thr[t].a].cls, thr[t].name).attr)
                  THEN "query" ELSE "return"]
    /\ UNCHANGED <<db, heap, instances, openCursors, queries, writes, nops, ncalls,
                   armed, nfaults, last>>

\* thread t has evaluated the right-hand side, with result r
Queried(t, r) ==
    /\ Commit(r)
    /\ thr' = [thr EXCEPT ![t].pc = IF r.kind = "ok" THEN "assign" ELSE "raised",
                          ![t].res = Value(r.shape, r.val)]
    /\ UNCHANGED <<ncalls, last>>

\* the right-hand side: self._fetch_linked(...)
Query(t) ==
    /\ thr[t].pc = "query"
    /\ Queried(t, Compute(World(heap, instances, 0), thr[t].a, thr[t].name))

\* self._x = <the value computed>
Assign(t) ==
    /\ thr[t].pc = "assign"
    /\ Commit(Ok(SetCache(World(heap, instances, 0), thr[t].a,
                          Relation(heap[thr[t].a].cls, thr[t].name).attr, thr[t].res),
                 "", <<>>))
    /\ thr' = [thr EXCEPT ![t].pc = "return"]
    /\ UNCHANGED <<ncalls, last>>

\* return self._x
ReturnValue(t) ==
    /\ thr[t].pc = "return"
    /\ thr' = [thr EXCEPT ![t].pc = "done"]
    /\ last' = Last("Return", heap[thr[t].a].cls, <<>>, <<>>, thr[t].a, thr[t].name, <<>>,
                    TRUE, World(heap, instances, 0),
                    Return(World(heap, instances, 0), thr[t].a,
                           Returned(heap[thr[t].a].cls, thr[t].name)))
    /\ UNCHANGED <<db, heap, instances, openCursors, queries, writes, nops, ncalls,
                   armed, nfaults>>

NextThreads ==
    \/ \E cls \in Classes : \E pk \in PkInputs(cls) : FetchPk(cls, pk)
    \/ \E t \in Threads : \E a \in 1..Len(heap) : \E name \in CachedFields(heap[a].cls) :
           Start(t, a, name)
    \/ \E t \in Threads : Test(t)
    \/ \E t \in Threads : Query(t)
    \/ \E t \in Threads : Assign(t)
    \/ \E t \in Threads : ReturnValue(t)

SpecThreads == InitThreads /\ [][NextThreads]_vars

\* ---------------------------------------------------------------- direct calls
\* Calls of the methods the properties and the facade are built on:
\* obj._fetch_linked(...) with arguments of the caller's choice, and obj.data.

\* the calls of _fetch_linked made on an instance of cls: a relation to bugs with two
\* candidate classes, in both orders; the summary rows of a subpackage, the base
\* table left to default and architecture excluded from the key; and the call
\* SubPackage.descriptions makes
LinkedCalls(cls) ==
    CASE cls = "Bug" ->
            {[rel |-> "blocks", field |-> <<"blocked">>, multiple |-> FALSE,
              classes |-> cs, base |-> "", exclude |-> {}] :
                 cs \in {<<"Bug", "Developper">>, <<"Developper", "Bug">>}}
      [] cls = "SubPackage" ->
            {[rel |-> "summary", field |-> <<"source">>, multiple |-> FALSE,
              classes |-> <<>>, base |-> "", exclude |-> {"architecture"}],
             [rel |-> "", field |-> <<"language", "description", "long_description",
                                      "md5sum">>, multiple |-> TRUE,
              classes |-> <<>>, base |-> "ddtp", exclude |-> {"architecture"}]}
      [] OTHER -> {}

\* the call c of _fetch_linked on the object at address a has ended with result r
Linked(a, c, w, r) ==
    /\ Commit(r)
    /\ last' = [Last("FetchLinked", heap[a].cls, <<>>, <<>>, a, c.rel, <<>>, FALSE, w, r)
                   EXCEPT !.call = c]
    /\ UNCHANGED <<ncalls, thr>>

\* obj._fetch_linked(c.rel, c.field, c.classes, c.base, c.exclude)
FetchLinked(a, c) ==
    /\ nops < MaxOps
    /\ Linked(a, c, World(heap, instances, armed),
              _fetch_linked(World(heap, instances, armed), a, c.rel, c.field, c.multiple,
                            c.classes, c.base, c.exclude))

\* obj.data on the live object at address a
Data(a) ==
    /\ nops < MaxOps
    /\ UNCHANGED ncalls
    /\ Handled("Data", heap[a].cls, <<>>, <<>>, a, "", <<>>, FALSE,
               World(heap, instances, armed), data(World(heap, instances, armed), a))

NextCalls ==
    \/ \E cls \in Classes : \E pk \in PkInputs(cls) : FetchPk(cls, pk)
    \/ \E a \in 1..Len(heap) : \E i \in 1..Len(ComputedFields(heap[a].cls)) :
           Access(a, ComputedFields(heap[a].cls)[i])
    \/ \E a \in 1..Len(heap) : \E c \in LinkedCalls(heap[a].cls) : FetchLinked(a, c)
    \/ \E a \in 1..Len(heap) : Data(a)

SpecCalls == Init /\ [][NextCalls]_vars

\* ---------------------------------------------------------------- properties
\* C1: Bug.fetch_database(pk=k) returns the instance built from the first of bugs,
\* archived_bugs that has a row with id k, and raises ObjectNotFound, and nothing
\* else, exactly when neither table has one (the store working).
C1_FirstTableOrObjectNotFound ==
    (last.op = "FetchPk" /\ last.cls = "Bug" /\ ~last.faulted) =>
        LET k == last.pk[1]
            holding == SelectSeq(Table("Bug").names, LAMBDA t :
                           \E i \in 1..Len(db.rows[t]) : db.rows[t][i][1] = k)
        IN IF holding = <<>> THEN last.kind = "ObjectNotFound"
           ELSE /\ last.kind = "ok"
                /\ heap[last.val[1]]._parameter = <<k>>
                /\ heap[last.val[1]]._table = <<holding[1]>>

\* C2: reading .blocks of a bug found in bugs that owns a row of bugs_blocks whose
\* blocked id is in neither bugs nor archived_bugs raises CorruptedDatabase (the
\* store working, the field not yet resolved).
C2_DanglingBlockIsCorruptedDatabase ==
    (/\ last.op = "Access" /\ last.cls = "Bug" /\ last.name = "blocks"
     /\ ~last.faulted /\ ~last.wasSet
     /\ heap[last.a]._table = <<"bugs">>
     /\ \E i \in 1..Len(db.rows["bugs_blocks"]) :
            /\ db.rows["bugs_blocks"][i][1] = heap[last.a]._parameter[1]
            /\ \A t \in {"bugs", "archived_bugs"} : \A j \in 1..Len(db.rows[t]) :
                   db.rows[t][j][1] # db.rows["bugs_blocks"][i][2])
    => last.kind = "CorruptedDatabase"

\* C3: resolve_path(p) returns the class of path p for every class the directory
\* lists (every direct or indirect subclass of UddResource), and raises
\* ResourceNotFound for a string that is the path of none of them.
C3_ResolvePathOfListedTypes ==
    (last.op = "ResolvePath") =>
        LET listed == Range(get_subclasses("UddResource"))
        IN IF \E c \in listed : Path(c) = last.url[1]
           THEN /\ last.kind = "ok"
                /\ \A c \in listed : Path(c) = last.url[1] => last.val = <<c>>
           ELSE last.kind = "ResourceNotFound"

\* C4: no two live instances have the same class and the same primary-key tuple, the
\* identity map points at every live instance, and so every operation that yields
\* the resource of a class and key yields the one instance at that address.
C4_SingletonIdentity ==
    /\ \A a, b \in 1..Len(heap) :
           (heap[a].cls = heap[b].cls /\ heap[a]._parameter = heap[b]._parameter) => a = b
    /\ \A a \in 1..Len(heap) :
           /\ <<heap[a].cls, heap[a]._parameter>> \in DOMAIN instances
           /\ instances[<<heap[a].cls, heap[a]._parameter>>] = a
    /\ (last.kind = "ok" /\ last.shape \in {"obj", "objs"}) =>
           \A i \in 1..Len(last.val) : last.val[i] \in 1..Len(heap)

\* a relation between bugs has resolved to instances that were all live before
C4_RelationYieldsLiveInstance ==
    /\ last.op = "Access" /\ last.name \in {"blocks", "blockedby", "merged_with"}
    /\ last.kind = "ok" /\ ~last.wasSet
    /\ Len(last.val) > 0
    /\ last.fresh = 0

\* C5: a successful fetch_database(pk=k) returns the instance whose primary-key
\* tuple is k, and for a class with a composite key the fetch of the key of a stored
\* row succeeds; a k that is the key of no row is ObjectNotFound (the store working).
C5_FetchByPkIsThatRow ==
    (last.op = "FetchPk" /\ ~last.faulted) =>
        LET t == Table(last.cls).names[1]
            stored == \E i \in 1..Len(db.rows[t]) :
                          Project(Columns(t), db.rows[t][i], Pk(last.cls)) = last.pk
        IN /\ last.kind = "ok" => heap[last.val[1]]._parameter = last.pk
           /\ Len(Pk(last.cls)) > 1 =>
                 IF stored THEN last.kind = "ok" ELSE last.kind = "ObjectNotFound"

C7_OneQueryOneWrite ==
    (\A t \in Threads : thr[t].pc # "raised") =>
        /\ \A k \in DOMAIN queries : queries[k] <= 1
        /\ \A k \in DOMAIN writes : writes[k] <= 1

\* C8: a fetch without primary key whose filter has a key that is not a declared field
\* of the class fails with no cursor opened, called on the class or through application.
C8_UnknownFilterKeyOpensNoCursor ==
    /\ (/\ last.op = "FetchFilter"
        /\ \E i \in 1..Len(last.kwargs) : last.kwargs[i][1] \notin Range(Fields(last.cls)))
       => (last.kind # "ok" /\ last.curs = <<>>)
    /\ (/\ last.op = "Application" /\ Len(last.url) = 1
        /\ resolve_path(last.url[1]) # <<>>
        /\ \E i \in 1..Len(last.kwargs) :
              last.kwargs[i][1] \notin Range(Fields(resolve_path(last.url[1])[1])))
       => (last.kind # "ok" /\ last.curs = <<>>)

\* C9: after every handler, returned or raised, no cursor is open, and every cursor the
\* handler opened has executed exactly one query and is closed.
C9_CursorsClosed ==
    /\ openCursors = 0
    /\ \A c \in 1..Len(last.curs) : last.curs[c].closed /\ last.curs[c].execs = 1

\* the store failed in the middle of a relation that had opened a second cursor
C9_RaisedMidStream ==
    /\ last.op = "Access" /\ last.faulted
    /\ last.kind = "StoreError"
    /\ Len(last.curs) >= 2

\* C10: usertags of a bug is the empty sequence when the bug is archived and the
\* <<email, tag>> rows of bugs_usertags of its id when it is active, and never None or
\* an error (the store working).
C10_Usertags ==
    (last.op = "Access" /\ last.cls = "Bug" /\ last.name = "usertags" /\ ~last.faulted) =>
        LET id == heap[last.a]._parameter[1]
            rows == SelectSeq(db.rows["bugs_usertags"], LAMBDA r : r[3] = id)
        IN /\ last.kind = "ok"
           /\ IF archived(World(heap, instances, 0), last.a)
              THEN last.shape # "none" /\ last.val = <<>>
              ELSE /\ last.shape = "tuples"
                   /\ last.val = [i \in 1..Len(rows) |-> <<rows[i][1], rows[i][2]>>]

\* C11: when _fetch_linked is called with several candidate classes and returns, the
\* element for each junction row is an instance of the first candidate, in the order
\* given, that has a row with the key of the junction row.
C11_FirstCandidateWins ==
    (last.op = "FetchLinked" /\ Len(last.call.classes) > 1 /\ last.kind = "ok") =>
        LET classes == last.call.classes
            junction == heap[last.a]._table[1] \o "_" \o last.call.rel
            rows == SelectSeq(db.rows[junction],
                              LAMBDA r : r[1] = heap[last.a]._parameter[1])
            Succeeds(cls, k) ==
                \E t \in Range(Table(cls).names) :
                    /\ Len(db.cols[t]) = Len(Fields(cls))
                    /\ \E n \in 1..Len(db.rows[t]) : db.rows[t][n][1] = k
            First(k) == CHOOSE j \in 1..Len(classes) :
                            /\ Succeeds(classes[j], k)
                            /\ \A m \in 1..(j - 1) : ~Succeeds(classes[m], k)
        IN /\ Len(last.val) = Len(rows)
           /\ \A n \in 1..Len(rows) :
                 heap[last.val[n]].cls = classes[First(rows[n][2])]

\* C12: a relation of a bug that has no target class (fixed_in, found_in, tags,
\* packages), read for the first time, returns one element per row of its junction
\* table with the id of the bug, in row order: the selected column, or the tuple of the
\* selected columns, as stored, NULL included; it raises nothing, creates no instance
\* and runs no query but the one on the junction.
C12_NativeRowsAsStored ==
    (/\ last.op = "Access" /\ last.cls = "Bug"
     /\ last.name \in {"fixed_in", "found_in", "tags", "packages"}
     /\ ~last.wasSet /\ ~last.faulted) =>
        LET rel == Relation("Bug", last.name)
            junction == heap[last.a]._table[1] \o "_" \o rel.rel
            rows == SelectSeq(db.rows[junction],
                              LAMBDA r : r[1] = heap[last.a]._parameter[1])
        IN /\ last.kind = "ok"
           /\ last.fresh = 0
           /\ Len(last.sql) = 1
           /\ Len(last.val) = Len(rows)
           /\ \A n \in 1..Len(rows) :
                 IF rel.multiple
                 THEN last.val[n] = Project(db.cols[junction], rows[n], rel.field)
                 ELSE last.val[n] = Project(db.cols[junction], rows[n], rel.field)[1]

\* C13: UddResource.fetch_database without primary key, with filters on declared
\* fields, returns one instance per row that has every filter's value in that filter's
\* field, the rows of the first table before those of the second, all rows when there
\* is no filter; each element is the instance of its row's key and holds the values of
\* the last listed row with that key (the store working, the columns as declared).
C13_FilterSelectsRows ==
    (/\ last.op = "FetchFilter" /\ last.cls # "Package" /\ ~last.faulted
     /\ \A i \in 1..Len(last.kwargs) : last.kwargs[i][1] \in Range(Fields(last.cls))
     /\ \A t \in Range(Table(last.cls).names) : Len(db.cols[t]) = Len(Fields(last.cls))) =>
        LET cls == last.cls
            tables == Table(cls).names
            Sel(t) == SelectSeq(db.rows[t], LAMBDA r :
                          \A i \in 1..Len(last.kwargs) :
                              r[IndexOf(Fields(cls), last.kwargs[i][1])] = last.kwargs[i][2])
            all == IF Len(tables) = 1 THEN Sel(tables[1])
                   ELSE Sel(tables[1]) \o Sel(tables[2])
        IN /\ last.kind = "ok"
           /\ Len(last.val) = Len(all)
           /\ \A n \in 1..Len(all) :
                 /\ heap[last.val[n]].cls = cls
                 /\ heap[last.val[n]]._parameter = Project(Fields(cls), all[n], Pk(cls))
                 /\ \E m \in n..Len(all) :
                       last.val[m] = last.val[n] /\ heap[last.val[n]]._data = all[m]

\* a filter on two fields has selected some rows and left others out
C13_TwoFilters ==
    /\ last.op = "FetchFilter" /\ last.kind = "ok"
    /\ Len(last.kwargs) = 2
    /\ Len(last.val) > 0
    /\ Len(last.val) < Len(db.rows[Table(last.cls).names[1]])

\* C14: p.subpackages returns one SubPackage per row of packages whose package is
\* p.name, and the package of every one of them equals p.name (the store working).
C14_SubpackagesOfPackage ==
    (last.op = "Access" /\ last.cls = "Package" /\ last.name = "subpackages"
     /\ ~last.faulted) =>
        LET name == heap[last.a]._data[1]
            rows == SelectSeq(db.rows["packages"], LAMBDA r : r[1] = SqlValue(name))
        IN /\ last.kind = "ok"
           /\ Len(last.val) = Len(rows)
           /\ \A n \in 1..Len(last.val) :
                 /\ heap[last.val[n]]._data = rows[n]
                 /\ Attr(heap[last.val[n]], "package") = name

\* C15: the data of an instance has one key per declared field and per computed
\* field and no other; each declared field carries the value of the row, and each
\* relation to resources carries, per target, the primary key of the target and
\* nothing else.
C15_DataOfInstance ==
    (last.op = "Data" /\ last.kind = "ok") =>
        LET self == heap[last.a]
            fields == Fields(self.cls)
            names == ComputedFields(self.cls)
            d == last.val[1]
        IN /\ DOMAIN d = Range(fields) \cup Range(names)
           /\ \A k \in Range(fields) :
                 /\ k \notin Range(names)
                 /\ d[k] = <<self._data[IndexOf(fields, k)]>>
           /\ \A k \in Range(names) \ Range(fields) :
                 (self.cls = "Bug" /\ k \in {"blocks", "blockedby", "merged_with"}) =>
                     LET targets == self.cache[Relation("Bug", k).attr].val
                     IN /\ Len(d[k]) = Len(targets)
                        /\ \A n \in 1..Len(targets) :
                              d[k][n] = [ref |-> "Bug", pk |-> heap[targets[n]]._parameter]

\* C17: no class that has been declared, so that instances of it can exist, has a name
\* both among its declared fields and among its computed fields.
C17_NoNameDeclaredTwice ==
    \A a \in 1..Len(heap) :
        Range(Fields(heap[a].cls)) \cap Range(ComputedFields(heap[a].cls)) = {}

\* C16: reading a computed field starts the relation query of that field of that
\* instance and of nothing else, and obj.data starts the query of each computed field
\* of obj at most once and no query of a field of any other instance, whatever the
\* relations between the rows.
C16_OneLevelDeep ==
    /\ (last.op = "Access") =>
           \A n \in 1..Len(last.rq) : n = 1 /\ last.rq[n] = <<last.a, last.name>>
    /\ (last.op = "Data") =>
           /\ \A n \in 1..Len(last.rq) : last.rq[n][1] = last.a
           /\ \A n, m \in 1..Len(last.rq) : last.rq[n] = last.rq[m] => n = m

\* the data of a bug that is merged with itself and blocks a bug have been computed
C16_DataOfCyclicBug ==
    /\ last.op = "Data" /\ last.cls = "Bug" /\ last.kind = "ok"
    /\ last.a \in Range(heap[last.a].cache["_merged_with"].val)
    /\ Len(heap[last.a].cache["_blocks"].val) > 0

\* C18: the raw field values and the backing table of a live instance never change.
C18_InstancesImmutable ==
    [][\A a \in 1..Len(heap) :
          /\ heap'[a]._data = heap[a]._data
          /\ heap'[a]._table = heap[a]._table]_vars

\* C19: the primary-key tuple of every live instance is the projection of its raw
\* field values onto the primary-key fields of its class, and no step changes the
\* primary-key tuple of a live instance.
C19_ParameterIsKeyOfData ==
    /\ [](\A a \in 1..Len(heap) :
            heap[a]._parameter
                = Project(Fields(heap[a].cls), heap[a]._data, Pk(heap[a].cls)))
    /\ [][\A a \in 1..Len(heap) : heap'[a]._parameter = heap[a]._parameter]_vars

\* a fetch has returned a live subpackage, initialised again from its row
C19_FetchedAgain ==
    /\ last.op \in {"FetchPk", "FetchFilter"} /\ last.cls = "SubPackage"
    /\ last.kind = "ok"
    /\ last.fresh = 0
    /\ Len(last.val) > 0

\* C20: every junction query of a call of _fetch_linked, with the base table given or
\* defaulted, constrains exactly the owner's primary-key fields outside
\* exclude_from_pk, in order, each bound to the owner's value of that field.
C20_JunctionPredicate ==
    last.op = "FetchLinked" =>
        LET self == heap[last.a]
            pk == DeclaredPk(self.cls)
            kept == SelectSeq([i \in 1..Len(pk) |-> i],
                              LAMBDA i : pk[i] \notin last.call.exclude)
            junctions == IF last.call.base # "" THEN {last.call.base \o last.call.rel}
                         ELSE {self._table[i] \o "_" \o last.call.rel :
                                  i \in 1..Len(self._table)}
        IN \A q \in 1..Len(last.sql) :
              last.sql[q].t \in junctions =>
                  /\ last.sql[q].cols = [i \in 1..Len(kept) |-> pk[kept[i]]]
                  /\ last.sql[q].vals = [i \in 1..Len(kept) |-> self._parameter[kept[i]]]

\* C21: when a fetch has returned a bug and one of its relations is queried next
\* (no base table given), the junction queries are, in order, those named after the
\* tables the fetch found the bug in: the first table holding the key for a fetch by
\* primary key, every table holding a matching row for a listing.
C21_JunctionOfFetchedTable ==
    [][(/\ last.op \in {"FetchPk", "FetchFilter"} /\ last.cls = "Bug"
        /\ last.kind = "ok"
        /\ last'.op = "Access" /\ last'.a \in Range(last.val)
        /\ last'.name # "archived" /\ last'.rq # <<>>
        /\ ~last'.wasSet /\ ~last'.faulted /\ last'.kind = "ok")
       => LET rel == Relation("Bug", last'.name).rel
              names == Table("Bug").names
              id == heap[last'.a]._parameter[1]
              cols == [k \in 1..Len(last.kwargs) |-> last.kwargs[k][1]]
              vals == [k \in 1..Len(last.kwargs) |-> last.kwargs[k][2]]
              found == SelectSeq(names, LAMBDA t :
                           \E n \in 1..Len(Matching(t, cols, vals)) :
                               Matching(t, cols, vals)[n][1] = id)
              holding == SelectSeq(names, LAMBDA t :
                             Matching(t, <<"id">>, <<id>>) # <<>>)
              from == IF last.op = "FetchPk" THEN <<Head(holding)>> ELSE found
              asked == SelectSeq(last'.sql, LAMBDA q :
                           \E n \in 1..Len(names) : q.t = names[n] \o "_" \o rel)
          IN [n \in 1..Len(asked) |-> asked[n].t]
                 = [n \in 1..Len(from) |-> from[n] \o "_" \o rel]]_vars

\* C22: every instance a fetch returns holds one value per declared field of its
\* class, value i being column i of a row of its backing table; a fetch that ends
\* with an assertion failure leaves the heap and the identity map as they were and
\* every cursor it opened closed.
C22_RowsAssignedPositionally ==
    [][last'.op \in {"FetchPk", "FetchFilter"} =>
         /\ last'.kind = "ok" =>
               \A n \in 1..Len(last'.val) :
                  LET self == heap'[last'.val[n]]
                      t == IF self.cls = "Package" THEN "packages" ELSE self._table[1]
                  IN /\ Len(self._data) = Len(Fields(self.cls))
                     /\ \E r \in 1..Len(db.rows[t]) :
                           \A f \in 1..Len(self._data) : self._data[f] = db.rows[t][r][f]
         /\ last'.kind = "AssertionError" =>
               /\ heap' = heap
               /\ instances' = instances
               /\ \A c \in 1..Len(last'.curs) : last'.curs[c].closed]_vars

\* C23: an access to a computed field that raises leaves every cache entry of the
\* instance as it was; and a field whose relation query was started while its cache
\* entry is still unset (its resolution raised) is not given a cache entry by a later
\* step that does not start the relation query again.
C23_FailedResolutionNotCached ==
    [][/\ (last'.op = "Access" /\ last'.kind # "ok")
              => heap'[last'.a].cache = heap[last'.a].cache
       /\ \A a \in 1..Len(heap) : \A name \in Range(ComputedFields(heap[a].cls)) :
             (/\ ~(heap[a].cls = "Bug" /\ name = "archived")
              /\ ~(heap[a].cls = "Package" /\ name = "subpackages")
              /\ <<a, name>> \in DOMAIN queries
              /\ ~heap[a].cache[Relation(heap[a].cls, name).attr].set
              /\ heap'[a].cache[Relation(heap[a].cls, name).attr].set)
             => /\ <<a, name>> \in DOMAIN queries'
                /\ queries'[<<a, name>>] > queries[<<a, name>>]]_vars

====
